---- MODULE Spec2Model ----
(***************************************************************************)
(* The ExecuteWebhook payload builder (src/builder/execute_webhook.rs):    *)
(* a newtype over VecMap<&'static str, Value> with five setters and a      *)
(* Default implementation.  The builder is the state `map`; `calls` is a   *)
(* history of the setter calls made so far (not part of the program, it    *)
(* only lets properties speak about "the most recent call").               *)
(***************************************************************************)
EXTENDS Integers, Sequences, FiniteSets, TLC

\* ---------------------------------------------------------------- bounds
MaxCalls == 4

\* ---------------------------------------------------------------- inputs
\* arguments the setters are called with: two strings, both booleans, and
\* embed vectors built from the two embeds of the struct-level example
Strings == {"hello", "hello again"}
EmbedSeqs == {<<>>, <<"website">>, <<"website", "resources">>, <<"resources", "website">>}
Fields == {"content", "username", "avatar_url", "tts", "embeds"}

\* ------------------------------------------------- serde_json::Value
ValueString(s) == [tag |-> "String", s |-> s]
ValueBool(b) == [tag |-> "Bool", b |-> b]
ValueArray(a) == [tag |-> "Array", a |-> a]

\* ------------------------------------------------------ utils::VecMap
VecMap_new == <<>>
pos(m, key) == {i \in 1..Len(m) : m[i].k = key}
insert(m, key, value) ==
    IF pos(m, key) # {}
    THEN [i \in 1..Len(m) |-> IF m[i].k = key THEN [k |-> key, v |-> value] ELSE m[i]]
    ELSE Append(m, [k |-> key, v |-> value])
\* bug variants of VecMap use, for the setters below
remove(m, key) == SelectSeq(m, LAMBDA e : e.k # key)
push(m, key, value) == Append(m, [k |-> key, v |-> value])

\* ------------------------------------------------------ ExecuteWebhook
avatar_url_wrongkey(self, url) == insert(self, "username", ValueString(url))
avatar_url(self, url) == insert(self, "avatar_url", ValueString(url))

content_push(self, c) == push(self, "content", ValueString(c))
content_reinsert(self, c) == push(remove(self, "content"), "content", ValueString(c))
content_keepfirst(self, c) ==
    IF pos(self, "content") # {} THEN self ELSE insert(self, "content", ValueString(c))
content(self, c) == insert(self, "content", ValueString(c))

embeds_append(self, e) ==
    IF pos(self, "embeds") # {}
    THEN insert(self, "embeds", ValueArray(self[CHOOSE i \in pos(self, "embeds") : TRUE].v.a \o e))
    ELSE insert(self, "embeds", ValueArray(e))
embeds(self, e) == insert(self, "embeds", ValueArray(e))

tts_reinsert(self, b) == push(remove(self, "tts"), "tts", ValueBool(b))
tts_string(self, b) == insert(self, "tts", ValueString(IF b THEN "true" ELSE "false"))
tts(self, b) == insert(self, "tts", ValueBool(b))

username_clobber(self, u) == insert(remove(self, "avatar_url"), "username", ValueString(u))
username(self, u) == insert(self, "username", ValueString(u))

default_tts_on == insert(VecMap_new, "tts", ValueBool(TRUE))
default_empty == VecMap_new
default == insert(VecMap_new, "tts", ValueBool(FALSE))

\* ---------------------------------------------------------------- state
VARIABLES map, calls
vars == <<map, calls>>

Init ==
    /\ map = default
    /\ calls = <<>>

CallAvatarUrl ==
    \E s \in Strings :
        /\ Len(calls) < MaxCalls
        /\ map' = avatar_url(map, s)
        /\ calls' = Append(calls, [f |-> "avatar_url", s |-> s])

CallContent ==
    \E s \in Strings :
        /\ Len(calls) < MaxCalls
        /\ map' = content(map, s)
        /\ calls' = Append(calls, [f |-> "content", s |-> s])

CallEmbeds ==
    \E e \in EmbedSeqs :
        /\ Len(calls) < MaxCalls
        /\ map' = embeds(map, e)
        /\ calls' = Append(calls, [f |-> "embeds", a |-> e])

CallTts ==
    \E b \in BOOLEAN :
        /\ Len(calls) < MaxCalls
        /\ map' = tts(map, b)
        /\ calls' = Append(calls, [f |-> "tts", b |-> b])

CallUsername ==
    \E s \in Strings :
        /\ Len(calls) < MaxCalls
        /\ map' = username(map, s)
        /\ calls' = Append(calls, [f |-> "username", s |-> s])

Next ==
    \/ CallAvatarUrl
    \/ CallContent
    \/ CallEmbeds
    \/ CallTts
    \/ CallUsername

Spec == Init /\ [][Next]_vars

\* ------------------------------------------------- observation helpers
Keys(m) == [i \in 1..Len(m) |-> m[i].k]
Has(m, key) == \E i \in 1..Len(m) : m[i].k = key
Count(m, key) == Cardinality({i \in 1..Len(m) : m[i].k = key})
Entries(m, key) == SelectSeq(m, LAMBDA e : e.k = key)
Get(m, key) == m[CHOOSE i \in 1..Len(m) : m[i].k = key /\ \A j \in 1..(i - 1) : m[j].k # key].v

\* the Value a call is documented to store
Stored(c) ==
    IF c.f = "tts" THEN ValueBool(c.b)
    ELSE IF c.f = "embeds" THEN ValueArray(c.a)
    ELSE ValueString(c.s)
\* one setter call applied to a builder
Apply(m, c) ==
    IF c.f = "avatar_url" THEN avatar_url(m, c.s)
    ELSE IF c.f = "content" THEN content(m, c.s)
    ELSE IF c.f = "embeds" THEN embeds(m, c.a)
    ELSE IF c.f = "tts" THEN tts(m, c.b)
    ELSE username(m, c.s)
RECURSIVE Replay(_)
Replay(cs) == IF cs = <<>> THEN default ELSE Apply(Replay(SubSeq(cs, 1, Len(cs) - 1)), cs[Len(cs)])
AllCalls ==
    {[f |-> g, s |-> x] : g \in {"avatar_url", "content", "username"}, x \in Strings}
    \cup {[f |-> "tts", b |-> x] : x \in BOOLEAN}
    \cup {[f |-> "embeds", a |-> x] : x \in EmbedSeqs}
LastCall == calls[Len(calls)]
CalledIdx(f) == {i \in 1..Len(calls) : calls[i].f = f}
LastIdx(f) == CHOOSE i \in CalledIdx(f) : \A j \in CalledIdx(f) : j <= i
InsertAt(cs, i, c) == SubSeq(cs, 1, i) \o <<c>> \o SubSeq(cs, i + 1, Len(cs))

\* ---------------------------------------------------------------- claims

\* C1: the builder returned by default(), before any setter call, holds exactly
\* one entry, key "tts" with the boolean false, and nothing else.
C1_DefaultIsTtsFalse ==
    calls = <<>> => map = <<[k |-> "tts", v |-> ValueBool(FALSE)]>>
C1_Witness == calls = <<>> /\ Len(map) = 1 /\ Has(map, "tts")

\* C2: from any reachable builder, calling one setter with a and then the same
\* setter with b leaves exactly one entry for that field, holding b and not a.
C2_One(m, f, v) == Entries(m, f) = <<[k |-> f, v |-> v]>>
C2_SetTwiceKeepsLast ==
    /\ (Len(calls) >= 2 /\ calls[Len(calls) - 1].f = LastCall.f)
          => C2_One(map, LastCall.f, Stored(LastCall))
    /\ calls # <<>> =>
          /\ LastCall.f = "content" => \A b \in Strings :
                C2_One(content(map, b), "content", ValueString(b))
          /\ LastCall.f = "username" => \A b \in Strings :
                C2_One(username(map, b), "username", ValueString(b))
          /\ LastCall.f = "avatar_url" => \A b \in Strings :
                C2_One(avatar_url(map, b), "avatar_url", ValueString(b))
          /\ LastCall.f = "tts" => \A b \in BOOLEAN :
                C2_One(tts(map, b), "tts", ValueBool(b))
          /\ LastCall.f = "embeds" => \A b \in EmbedSeqs :
                C2_One(embeds(map, b), "embeds", ValueArray(b))
C2_Witness ==
    /\ Len(calls) >= 2
    /\ calls[Len(calls) - 1].f = LastCall.f
    /\ Stored(calls[Len(calls) - 1]) # Stored(LastCall)
    /\ Entries(map, LastCall.f) = <<[k |-> LastCall.f, v |-> Stored(LastCall)]>>

\* C3: a call to the setter of field X leaves every other field Y as it was:
\* present after the call iff present before, with the same value.
C3_FieldIndependence ==
    [][\A y \in Fields \ {calls'[Len(calls')].f} : Entries(map', y) = Entries(map, y)]_vars
C3_Witness ==
    /\ Len(calls) >= 3
    /\ Cardinality({calls[i].f : i \in 1..Len(calls)} \ {"tts"}) >= 3
    /\ \A i \in 1..Len(calls) : Has(map, calls[i].f) /\ Get(map, calls[i].f) = Stored(calls[i])

\* C4: a setter call for a field already present changes only that entry's
\* value and leaves every entry in its slot; default -> content("hello") ->
\* tts(true) -> content("hello again") gives [tts: true, content: "hello again"].
C4_Scenario ==
    <<[f |-> "content", s |-> "hello"], [f |-> "tts", b |-> TRUE],
      [f |-> "content", s |-> "hello again"]>>
C4_OverwriteKeepsSlot ==
    /\ [][Has(map, calls'[Len(calls')].f) =>
            /\ Keys(map') = Keys(map)
            /\ \A i \in 1..Len(map) :
                  map[i].k # calls'[Len(calls')].f => map'[i] = map[i]]_vars
    /\ [](calls = C4_Scenario =>
            map = <<[k |-> "tts", v |-> ValueBool(TRUE)],
                    [k |-> "content", v |-> ValueString("hello again")]>>)
C4_Witness ==
    /\ Len(calls) = 3
    /\ calls[1].f = calls[3].f
    /\ calls[1].f # calls[2].f
    /\ calls[2].f # "tts"
    /\ Stored(calls[1]) # Stored(calls[3])
    /\ Keys(map) = <<"tts", calls[1].f, calls[2].f>>
    /\ map[2].v = Stored(calls[3])

\* C5: when every call so far set a field that was not yet present, the entries
\* appear in the order of the calls, after the default tts entry, which is first.
C5_NoOverwrites ==
    /\ \A i \in 1..Len(calls) : calls[i].f # "tts"
    /\ \A i, j \in 1..Len(calls) : i # j => calls[i].f # calls[j].f
C5_InsertionOrder ==
    C5_NoOverwrites => Keys(map) = <<"tts">> \o [i \in 1..Len(calls) |-> calls[i].f]
C5_Witness ==
    /\ C5_NoOverwrites
    /\ Len(calls) = 4
    /\ Keys(map) = <<"tts", calls[1].f, calls[2].f, calls[3].f, calls[4].f>>

\* C6: after embeds(s) the embeds entry is exactly the sequence s, whatever was
\* stored before; embeds of two elements then embeds of none leaves a present,
\* empty embeds entry.
C6_EmbedsReplaces ==
    /\ \A s \in EmbedSeqs : Entries(embeds(map, s), "embeds") = <<[k |-> "embeds", v |-> ValueArray(s)]>>
    /\ (calls # <<>> /\ LastCall.f = "embeds")
          => Entries(map, "embeds") = <<[k |-> "embeds", v |-> ValueArray(LastCall.a)]>>
    /\ (Len(calls) = 2 /\ calls[1].f = "embeds" /\ calls[2].f = "embeds"
          /\ Len(calls[1].a) = 2 /\ calls[2].a = <<>>)
          => Has(map, "embeds") /\ Get(map, "embeds") = ValueArray(<<>>)
C6_Witness ==
    /\ Len(calls) = 2
    /\ calls[1].f = "embeds" /\ Len(calls[1].a) = 2
    /\ calls[2].f = "embeds" /\ calls[2].a = <<>>
    /\ Has(map, "embeds")
    /\ Len(Get(map, "embeds").a) = 0

\* C7: for a sequence of setter calls with no tts call, the builder is the same
\* (entries, values, order) as the one built by the same sequence with a
\* tts(false) call inserted at any point.
C7_NoTtsCall == \A i \in 1..Len(calls) : calls[i].f # "tts"
C7_OmitEqualsDisable ==
    C7_NoTtsCall =>
        \A i \in 0..Len(calls) : Replay(InsertAt(calls, i, [f |-> "tts", b |-> FALSE])) = map
C7_Witness ==
    /\ C7_NoTtsCall
    /\ Len(calls) >= 3
    /\ Len(map) >= 3
    /\ Replay(InsertAt(calls, 1, [f |-> "tts", b |-> FALSE])) = map

\* C8: every field whose setter was called is present and holds the argument of
\* the most recent call to that setter; a field other than tts whose setter was
\* never called is absent.
C8_RoundTrip ==
    \A f \in Fields :
        /\ CalledIdx(f) # {} => Has(map, f) /\ Get(map, f) = Stored(calls[LastIdx(f)])
        /\ (CalledIdx(f) = {} /\ f # "tts") => ~Has(map, f)
C8_Witness ==
    /\ Len(calls) = 4
    /\ \E i, j \in 1..4 : i < j /\ calls[i].f = calls[j].f /\ Stored(calls[i]) # Stored(calls[j])
          /\ Get(map, calls[j].f) = Stored(calls[j]) /\ LastIdx(calls[j].f) = j
    /\ \E f \in Fields \ {"tts"} : CalledIdx(f) = {} /\ ~Has(map, f)

\* C9: no field name occurs in more than one entry, the mapping never holds
\* more than five entries, and a setter call adds at most one entry.
C9_KeysUnique ==
    /\ [](\A f \in Fields : Count(map, f) <= 1)
    /\ [](Len(map) <= 5)
    /\ [][Len(map') <= Len(map) + 1]_vars
C9_Witness ==
    /\ Len(calls) = 4
    /\ calls[1].f = calls[2].f
    /\ calls[1].f = calls[3].f
    /\ calls[1].f = calls[4].f
    /\ calls[1].f # "tts"
    /\ Len(map) = 2

\* C10: the keys are always among the five field names, tts is always present
\* with a boolean value, embeds when present is an array, and no setter call
\* removes tts or any other entry.
C10_WireShape ==
    /\ [](\A i \in 1..Len(map) : map[i].k \in Fields)
    /\ [](Has(map, "tts") /\ \A i \in 1..Len(map) : map[i].k = "tts" => map[i].v.tag = "Bool")
    /\ [](\A i \in 1..Len(map) : map[i].k = "embeds" => map[i].v.tag = "Array")
    /\ [][\A f \in Fields : Has(map, f) => Has(map', f)]_vars
C10_Witness ==
    /\ Len(map) >= 4
    /\ \E i \in 1..Len(calls) : calls[i].f = "tts" /\ calls[i].b
    /\ Has(map, "embeds") /\ Get(map, "embeds").tag = "Array"
    /\ Get(map, "tts").tag = "Bool"
====
